---------------------------- MODULE Spec2Model ----------------------------
(***************************************************************************)
(* Operators of the autograd engine (src/ops/array_ops.rs and              *)
(* src/ops/activation_ops.rs): their compute and grad methods, run over a  *)
(* graph of tensor nodes.                                                  *)
(*                                                                         *)
(* An array is a record [shape, strides, data]: data holds the elements in *)
(* logical row-major order, strides are the element strides of the view in *)
(* its buffer (they decide is_standard_layout only).  Axes and indices are *)
(* 0-based as in the source; sequences are 1-based, hence the "+ 1"s.      *)
(***************************************************************************)
EXTENDS Integers, Sequences, FiniteSets, TLC

VARIABLES graph, vals, grads

vars == <<graph, vals, grads>>

(***************************************************************************)
(* Bounds of the model.                                                    *)
(***************************************************************************)
MaxExtent == 2

MaxInputs == 3

MaxAxes == 2

MaxNum == 3

MaxIndices == 3

MaxValue == 4

MaxNodes == 12

(***************************************************************************)
(* Shapes, strides and row-major addressing (the ndarray backend).         *)
(***************************************************************************)
RECURSIVE Prod(_)
Prod(s) == IF s = <<>> THEN 1 ELSE Head(s) * Prod(Tail(s))

RECURSIVE Sum(_)
Sum(s) == IF s = <<>> THEN 0 ELSE Head(s) + Sum(Tail(s))

Inner(shape, k) == Prod(SubSeq(shape, k + 1, Len(shape)))

DefaultStrides(shape) ==
    IF Prod(shape) = 0 THEN [k \in 1..Len(shape) |-> 0]
    ELSE [k \in 1..Len(shape) |-> Inner(shape, k)]

\* coordinates (0-based) of the row-major position p (0-based)
Unflat(shape, p) == [k \in 1..Len(shape) |-> (p \div Inner(shape, k)) % shape[k]]

Flat(shape, c) == Sum([k \in 1..Len(shape) |-> c[k] * Inner(shape, k)])

At(a, c) == a.data[Flat(a.shape, c) + 1]

\* the standard-layout array of a shape whose element at coordinates c is F(c)
MkArr(shape, F(_)) ==
    [shape |-> shape, strides |-> DefaultStrides(shape),
     data |-> [q \in 1..Prod(shape) |-> F(Unflat(shape, q - 1))]]

Zeros(shape) == MkArr(shape, LAMBDA c : 0)

RemoveAt(s, k) == SubSeq(s, 1, k - 1) \o SubSeq(s, k + 1, Len(s))

InsertAt(s, k, e) == SubSeq(s, 1, k - 1) \o <<e>> \o SubSeq(s, k, Len(s))

\* into_shape succeeds exactly when the target holds as many elements, and
\* keeps their row-major order
IntoShapeOk(x, target) == Prod(target) = Len(x.data)

Reshaped(x, target) ==
    [shape |-> target, strides |-> DefaultStrides(target), data |-> x.data]

\* ndarray's is_standard_layout: an empty array is, and otherwise every axis
\* of extent other than 1 carries its row-major stride
IsStandardLayout(a) ==
    \/ Prod(a.shape) = 0
    \/ \A k \in 1..Len(a.shape) :
          a.shape[k] # 1 => a.strides[k] = Inner(a.shape, k)


(***************************************************************************)
(* Results of compute.  ArrRepr::Owned and ArrRepr::View carry an array; a *)
(* panic! / failed unwrap / failed assert is the tag "Panic"; tag "Err" is *)
(* the Err(ComputeError) member of op::ComputeResults; tag "None" marks a  *)
(* node that has not been evaluated.                                       *)
(***************************************************************************)
Owned(a) == [tag |-> "Owned", shape |-> a.shape, strides |-> a.strides, data |-> a.data]

View(a) == [tag |-> "View", shape |-> a.shape, strides |-> a.strides, data |-> a.data]

Panic == [tag |-> "Panic", shape |-> <<>>, strides |-> <<>>, data |-> <<>>]

NoVal == [tag |-> "None", shape |-> <<>>, strides |-> <<>>, data |-> <<>>]

IsArr(v) == v.tag \in {"Owned", "View"}

Arr(v) == [shape |-> v.shape, strides |-> v.strides, data |-> v.data]

\* `as usize` of a negative isize wraps to a value above every extent
UsizeWrap == 2 ^ 20

AsUsize(i) == IF i < 0 THEN UsizeWrap + i ELSE i

(***************************************************************************)
(* ndarray slicing.  A SliceOrIndex::Slice is [start, end, open, step],    *)
(* open = TRUE standing for end: None.                                     *)
(***************************************************************************)
Sl(start, end, step) == [start |-> start, end |-> end, open |-> FALSE, step |-> step]

FullSlice == [start |-> 0, end |-> 0, open |-> TRUE, step |-> 1]

AbsIndex(len, i) == IF i < 0 THEN AsUsize(len + i) ELSE i

SliceStart(len, sl) == AbsIndex(len, sl.start)

SliceEnd(len, sl) ==
    LET e == IF sl.open THEN len ELSE AbsIndex(len, sl.end)
    IN  IF e < SliceStart(len, sl) THEN SliceStart(len, sl) ELSE e

\* do_slice asserts start <= len, end <= len and step # 0
SliceOk(len, sl) ==
    /\ SliceStart(len, sl) <= len
    /\ SliceEnd(len, sl) <= len
    /\ sl.step # 0

AbsStep(sl) == IF sl.step < 0 THEN 0 - sl.step ELSE sl.step

SliceLen(len, sl) ==
    LET m == SliceEnd(len, sl) - SliceStart(len, sl)
    IN  (m + AbsStep(sl) - 1) \div AbsStep(sl)

\* the source position of position j of the sliced axis
SlicePos(len, sl, j) ==
    IF sl.step > 0 THEN SliceStart(len, sl) + j * sl.step
    ELSE SliceEnd(len, sl) - 1 - j * AbsStep(sl)

SlicesOk(a, indices) ==
    /\ Len(indices) = Len(a.shape)
    /\ \A k \in 1..Len(indices) : SliceOk(a.shape[k], indices[k])

\* the view that slice_collapse / slice_move / slice_mut select (SlicesOk holds)
SliceArr(a, indices) ==
    LET shape == [k \in 1..Len(a.shape) |-> SliceLen(a.shape[k], indices[k])]
        picked == MkArr(shape, LAMBDA c :
                     At(a, [k \in 1..Len(c) |-> SlicePos(a.shape[k], indices[k], c[k])]))
    IN  [shape |-> shape,
         strides |-> [k \in 1..Len(a.shape) |-> a.strides[k] * indices[k].step],
         data |-> picked.data]

\* ndarray::stack: concatenation along an existing axis; Err (FALSE here) when
\* there is no array, the axis is out of bounds or the other extents differ
StackOk(axis, xs) ==
    /\ Len(xs) > 0
    /\ axis < Len(xs[1].shape)
    /\ \A i \in 1..Len(xs) :
          /\ Len(xs[i].shape) = Len(xs[1].shape)
          /\ \A k \in 1..Len(xs[1].shape) :
                k # axis + 1 => xs[i].shape[k] = xs[1].shape[k]

\* the sum of the axis-extents of the first n arrays
Offset(axis, xs, n) == Sum([i \in 1..n |-> xs[i].shape[axis + 1]])

\* which array holds position p of the stacked axis
Holder(axis, xs, p) ==
    CHOOSE i \in 1..Len(xs) : Offset(axis, xs, i - 1) <= p /\ p < Offset(axis, xs, i)

Stack(axis, xs) ==
    LET shape == [xs[1].shape EXCEPT ![axis + 1] = Offset(axis, xs, Len(xs))]
    IN  MkArr(shape, LAMBDA c :
            LET i == Holder(axis, xs, c[axis + 1])
            IN  At(xs[i], [c EXCEPT ![axis + 1] = c[axis + 1] - Offset(axis, xs, i - 1)]))

normalize_negative_axis(axis, ndim) == IF axis < 0 THEN AsUsize(ndim + axis) ELSE axis

(***************************************************************************)
(* Concat, ConcatGrad, Split                                               *)
(***************************************************************************)
Concat_axis(self, xs) ==
    IF self.axis < 0 THEN AsUsize(Len(xs[1].shape) + self.axis) ELSE self.axis

Concat_compute(self, xs) ==
    LET axis == Concat_axis(self, xs)
    IN  IF StackOk(axis, xs) THEN Owned(Stack(axis, xs)) ELSE Panic

\* xs = [gy, x0, ..., xn]
ConcatGrad_indices(self, xs) ==
    LET gy == xs[1]
        ins == Tail(xs)
        axis == Concat_axis(self, ins)
        start_idx == Offset(axis, ins, self.index)
        region_len == ins[self.index + 1].shape[axis + 1]
    IN  [k \in 1..Len(gy.shape) |->
            IF k - 1 = axis THEN Sl(start_idx, region_len, 1) ELSE FullSlice]

ConcatGrad_compute(self, xs) ==
    LET gy == xs[1]
        ins == Tail(xs)
        axis == Concat_axis(self, ins)
    IN  IF axis >= Len(ins[self.index + 1].shape) THEN Panic
        ELSE IF ~SlicesOk(gy, ConcatGrad_indices(self, xs)) THEN Panic
        ELSE View(SliceArr(gy, ConcatGrad_indices(self, xs)))

\* make_indices_for_split taking the end for a length
make_indices_for_split_len(x, start_index, end_index, axis) ==
    [k \in 1..Len(x.shape) |->
        IF k - 1 = axis THEN Sl(start_index, end_index - start_index, 1) ELSE FullSlice]

make_indices_for_split(x, start_index, end_index, axis) ==
    [k \in 1..Len(x.shape) |->
        IF k - 1 = axis THEN Sl(start_index, end_index, 1) ELSE FullSlice]

Split_compute(self, xs) ==
    LET x == xs[1]
        axis == normalize_negative_axis(self.axis, Len(x.shape))
        indices == make_indices_for_split(x, self.start_index, self.end_index, axis)
    IN  IF ~(Len(x.shape) > axis) THEN Panic
        ELSE IF ~SlicesOk(x, indices) THEN Panic
        ELSE View(SliceArr(x, indices))

(***************************************************************************)
(* Squeeze, ExpandDims                                                     *)
(***************************************************************************)
RECURSIVE Sorted(_)
Sorted(s) ==
    IF s = <<>> THEN <<>>
    ELSE LET m == CHOOSE i \in 1..Len(s) : \A j \in 1..Len(s) : s[i] <= s[j]
         IN  <<s[m]>> \o Sorted(RemoveAt(s, m))

\* the loop of Squeeze::compute over the sorted axes; x is the array squeezed
\* so far.  axis - adjust below 0 is a usize underflow, shape()[axis] beyond
\* the rank an out-of-bounds index: both panic, as the assert_eq does
RECURSIVE Squeeze_loop(_, _, _)
Squeeze_loop(x, axes, adjust) ==
    IF axes = <<>> THEN View(x)
    ELSE LET i == Head(axes)
             axis == (IF i < 0 THEN AsUsize(Len(x.shape) + i) ELSE i) - adjust
         IN  IF axis < 0 \/ axis >= Len(x.shape) THEN Panic
             ELSE IF x.shape[axis + 1] # 1 THEN Panic
             ELSE Squeeze_loop([shape |-> RemoveAt(x.shape, axis + 1),
                                strides |-> RemoveAt(x.strides, axis + 1),
                                data |-> x.data],
                               Tail(axes), adjust + 1)

\* xs = [x, axes]
Squeeze_compute(self, xs) == Squeeze_loop(xs[1], Sorted(xs[2].data), 0)

\* the loop of ExpandDims::compute; ndim is the rank of the input, which the
\* loop does not change.  NoShape: Vec::insert past the end (a panic)
NoShape == <<-1>>

RECURSIVE ExpandDims_loop(_, _, _)
ExpandDims_loop(output_shape, axes, ndim) ==
    IF axes = <<>> THEN output_shape
    ELSE LET i == Head(axes)
             axis == IF i < 0 THEN AsUsize(ndim + i) ELSE i
         IN  IF axis > Len(output_shape) THEN NoShape
             ELSE ExpandDims_loop(InsertAt(output_shape, axis + 1, 1), Tail(axes), ndim)

\* xs = [x, axes]; into_shape keeps the row-major order of the elements
ExpandDims_compute(self, xs) ==
    LET output_shape == ExpandDims_loop(xs[1].shape, Sorted(xs[2].data), Len(xs[1].shape))
    IN  IF output_shape = NoShape THEN Panic
        ELSE View([shape |-> output_shape, strides |-> DefaultStrides(output_shape),
                   data |-> xs[1].data])

(***************************************************************************)
(* Tile and the keep-dims sum its gradient is built from                   *)
(***************************************************************************)
Tile_compute(self, xs) ==
    LET axis == normalize_negative_axis(self.axis, Len(xs[1].shape))
        views == [k \in 1..self.num |-> xs[1]]
    IN  IF StackOk(axis, views) THEN Owned(Stack(axis, views)) ELSE Panic

\* ops::reduce_sum(x, &[axis], keep_dims = true): the sum along the axis, the
\* axis kept with extent 1
ReduceSum_compute(self, xs) ==
    LET x == xs[1]
        axis == normalize_negative_axis(self.axes[1], Len(x.shape))
    IN  IF axis >= Len(x.shape) THEN Panic
        ELSE Owned(MkArr([x.shape EXCEPT ![axis + 1] = 1], LAMBDA c :
                 Sum([j \in 1..x.shape[axis + 1] |-> At(x, [c EXCEPT ![axis + 1] = j - 1])])))

(***************************************************************************)
(* IndexOp, IndexOpGrad                                                    *)
(***************************************************************************)
\* IndexOp_i without the wraparound of a negative index
IndexOp_i_nowrap(self, x) == AsUsize(self.index)

IndexOp_i(self, x) ==
    IF self.index < 0 THEN AsUsize(Len(x.data) + self.index) ELSE self.index

Scalar(v) == [shape |-> <<>>, strides |-> <<>>, data |-> <<v>>]

IndexOp_compute(self, xs) ==
    LET x == xs[1]
        i == IndexOp_i(self, x)
    IN  IF i < Len(x.data) THEN Owned(Scalar(x.data[i + 1])) ELSE Panic

\* xs = [x, gy]; gy[IxDyn(&[])] needs a 0-dimensional gy
IndexOpGrad_compute(self, xs) ==
    LET x == xs[1]
        gy == xs[2]
        i == IndexOp_i(self, x)
    IN  IF i < Len(x.data) /\ gy.shape = <<>>
        THEN Owned(MkArr(x.shape, LAMBDA c :
                 IF Flat(x.shape, c) = i THEN gy.data[1] ELSE 0))
        ELSE Panic

(***************************************************************************)
(* Gather                                                                  *)
(***************************************************************************)
\* ndarray_ext::normalize_negative_axes: a negative index counts from the end
normalize_negative_axes(indices, extent) ==
    [k \in 1..Len(indices.data) |->
        IF indices.data[k] < 0 THEN AsUsize(extent + indices.data[k]) ELSE indices.data[k]]

Gather_flat_indices(self, indices, extent) ==
    IF self.should_normalize_negative_indices
    THEN normalize_negative_axes(indices, extent)
    ELSE indices.data

\* xs = [indices, param].  to_usize().unwrap() panics on a negative index and
\* select on an index beyond the extent
Gather_compute(self, xs) ==
    LET indices == xs[1]
        param == xs[2]
        axis == normalize_negative_axis(self.axis, Len(param.shape))
    IN  IF axis >= Len(param.shape) THEN Panic
        ELSE LET flat == Gather_flat_indices(self, indices, param.shape[axis + 1])
                 output_shape == SubSeq(param.shape, 1, axis) \o indices.shape
                                   \o SubSeq(param.shape, axis + 2, Len(param.shape))
                 selected == MkArr([param.shape EXCEPT ![axis + 1] = Len(flat)],
                                LAMBDA c : At(param, [c EXCEPT ![axis + 1] = flat[c[axis + 1] + 1]]))
             IN  IF \E k \in 1..Len(flat) : flat[k] < 0 \/ flat[k] >= param.shape[axis + 1]
                 THEN Panic
                 ELSE Owned(Reshaped(selected, output_shape))

(***************************************************************************)
(* GatherGrad                                                              *)
(***************************************************************************)
GatherGrad_axis(self, param) ==
    IF self.axis = -1 THEN Len(param.shape) ELSE AsUsize(self.axis)

\* the slice of gx that the loop body takes for index i
GatherGrad_slice(i) == Sl(i, i + 1, 1)

\* the body of the loop assigning instead of accumulating
GatherGrad_assign(gx, gy, axis, pos, k) ==
    MkArr(gx.shape, LAMBDA c :
        IF c[axis + 1] = pos THEN At(gy, [c EXCEPT ![axis + 1] = k]) ELSE At(gx, c))

\* the body of the loop: gx with gy's k-th sub-array along the axis added at
\* position pos
GatherGrad_add(gx, gy, axis, pos, k) ==
    MkArr(gx.shape, LAMBDA c :
        IF c[axis + 1] = pos
        THEN At(gx, c) + At(gy, [c EXCEPT ![axis + 1] = k])
        ELSE At(gx, c))

RECURSIVE GatherGrad_loop(_, _, _, _, _)
GatherGrad_loop(gx, gy, indices, axis, k) ==
    IF k >= Len(indices) THEN gx
    ELSE LET sl == GatherGrad_slice(indices[k + 1])
             pos == SliceStart(gx.shape[axis + 1], sl)
         IN  GatherGrad_loop(GatherGrad_add(gx, gy, axis, pos, k), gy, indices, axis, k + 1)

\* xs = [indices, param, gy].  The slices param_shape[..axis] and
\* param_shape[axis + 1..] need axis < rank; into_shape(..).unwrap() needs gy
\* to hold prefix ++ [indices.len()] ++ suffix elements; slice_mut needs each
\* [i, i + 1) within the extent and index_axis_move(axis, 0) a non-empty slice
GatherGrad_compute(self, xs) ==
    LET indices == xs[1]
        param == xs[2]
        axis == GatherGrad_axis(self, param)
        n == Len(indices.data)
    IN  IF axis + 1 > Len(param.shape) THEN Panic
        ELSE LET shape == [param.shape EXCEPT ![axis + 1] = n]
                 gy == [shape |-> shape, strides |-> DefaultStrides(shape),
                        data |-> xs[3].data]
                 len == param.shape[axis + 1]
             IN  IF Prod(shape) # Len(xs[3].data) THEN Panic
                 ELSE IF \E k \in 1..n :
                            \/ ~SliceOk(len, GatherGrad_slice(indices.data[k]))
                            \/ SliceLen(len, GatherGrad_slice(indices.data[k])) = 0
                      THEN Panic
                 ELSE Owned(GatherGrad_loop(Zeros(param.shape), gy, indices.data, axis, 0))

(***************************************************************************)
(* Identity, Slice, Reshape, AddN, Clip, ClipGrad                          *)
(***************************************************************************)
Identity_compute(self, xs) == View(xs[1])

Slice_compute(self, xs) ==
    IF SlicesOk(xs[1], self.indices) THEN View(SliceArr(xs[1], self.indices)) ELSE Panic

\* to_usize().unwrap() panics on a negative extent other than the sentinel -1,
\* and for the sentinel so does product.neg().to_usize().unwrap() when the
\* product of the given extents is positive, or the division when it is 0
Reshape_dim_ok(shape_arr, dim_size) ==
    IF dim_size # -1 THEN dim_size >= 0 ELSE 0 - Prod(shape_arr.data) > 0

\* the sentinel replaced by the element count of x, whatever the other extents
Reshape_dim_total(x, shape_arr, dim_size) ==
    IF dim_size # -1 THEN dim_size ELSE Len(x.data)

Reshape_dim(x, shape_arr, dim_size) ==
    IF dim_size # -1 THEN dim_size
    ELSE Len(x.data) \div (0 - Prod(shape_arr.data))

Reshape_target(x, shape_arr) ==
    [k \in 1..Len(shape_arr.data) |-> Reshape_dim(x, shape_arr, shape_arr.data[k])]

\* Reshape::compute that copies x whatever its layout
Reshape_compute_copy(self, xs) ==
    LET x == xs[1]
        target == Reshape_target(x, xs[2])
    IN  IF \E k \in 1..Len(xs[2].data) : ~Reshape_dim_ok(xs[2], xs[2].data[k]) THEN Panic
        ELSE IF IntoShapeOk(x, target) THEN Owned(Reshaped(x, target)) ELSE Panic

\* xs = [x, shape].  A standard-layout x is reshaped in place; when that
\* fails, so does the reshape of its copy, and the else branch panics
Reshape_compute(self, xs) ==
    LET x == xs[1]
        target == Reshape_target(x, xs[2])
    IN  IF \E k \in 1..Len(xs[2].data) : ~Reshape_dim_ok(xs[2], xs[2].data[k]) THEN Panic
        ELSE IF IsStandardLayout(x)
             THEN (IF IntoShapeOk(x, target) THEN View(Reshaped(x, target)) ELSE Panic)
             ELSE (IF IntoShapeOk(x, target) THEN Owned(Reshaped(x, target)) ELSE Panic)

\* b broadcasts to the shape of a (ndarray: trailing axes aligned, an extent
\* equal or 1)
Broadcasts(b, a) ==
    /\ Len(b.shape) <= Len(a.shape)
    /\ \A k \in 1..Len(b.shape) :
          LET e == b.shape[k]
          IN  e = 1 \/ e = a.shape[k + Len(a.shape) - Len(b.shape)]

BroadcastAt(b, a, c) ==
    At(b, [k \in 1..Len(b.shape) |->
              IF b.shape[k] = 1 THEN 0 ELSE c[k + Len(a.shape) - Len(b.shape)]])

\* a + b, a * b with b broadcast to a
Add(a, b) == MkArr(a.shape, LAMBDA c : At(a, c) + BroadcastAt(b, a, c))

Mul(a, b) == MkArr(a.shape, LAMBDA c : At(a, c) * BroadcastAt(b, a, c))

RECURSIVE AddN_sum(_, _)
AddN_sum(base, rest) ==
    IF rest = <<>> THEN base ELSE AddN_sum(Add(base, Head(rest)), Tail(rest))

AddN_compute(self, xs) ==
    IF Len(xs) = 0 THEN Panic
    ELSE IF Len(xs) = 1 THEN View(xs[1])
    ELSE IF \A k \in 2..Len(xs) : Broadcasts(xs[k], xs[1])
         THEN Owned(AddN_sum(xs[1], Tail(xs)))
         ELSE Panic

MinOf(a, b) == IF a < b THEN a ELSE b

MaxOf(a, b) == IF a > b THEN a ELSE b

Clip_compute(self, xs) ==
    Owned(MkArr(xs[1].shape, LAMBDA c : MaxOf(MinOf(At(xs[1], c), self.max), self.min)))

\* the mask with the bounds included
ClipGrad_mask_inclusive(self, x) ==
    (IF x >= self.min THEN 1 ELSE 0) * (IF x <= self.max THEN 1 ELSE 0)

\* the 0/1 mask of ClipGrad: (x > min) * (x < max)
ClipGrad_mask(self, x) ==
    (IF x > self.min THEN 1 ELSE 0) * (IF x < self.max THEN 1 ELSE 0)

\* xs = [x, gy]
ClipGrad_compute(self, xs) ==
    LET ret == MkArr(xs[1].shape, LAMBDA c : ClipGrad_mask(self, At(xs[1], c)))
    IN  IF Broadcasts(xs[2], ret) THEN Owned(Mul(ret, xs[2])) ELSE Panic

(***************************************************************************)
(* InferBinOpShape                                                         *)
(***************************************************************************)
\* ndarray_ext::is_scalar_shape: the shape of a 0-dimensional array
is_scalar_shape(shape) == shape = <<>> \/ shape = <<0>>

\* xs = [a_shape, b_shape], 1-D arrays; to_usize().unwrap() panics on a
\* negative extent, assert_eq!(a_rank, b_rank) on shapes of different length
InferBinOpShape_compute(self, xs) ==
    LET a_shape == xs[1].data
        b_shape == xs[2].data
        a_is_scalar == is_scalar_shape(a_shape)
        b_is_scalar == is_scalar_shape(b_shape)
    IN  IF \E k \in 1..Len(a_shape) : a_shape[k] < 0 THEN Panic
        ELSE IF \E k \in 1..Len(b_shape) : b_shape[k] < 0 THEN Panic
        ELSE IF ~a_is_scalar /\ ~b_is_scalar
             THEN (IF Len(a_shape) # Len(b_shape) THEN Panic
                   ELSE Owned([shape |-> <<Len(a_shape)>>, strides |-> <<1>>,
                               data |-> [k \in 1..Len(a_shape) |->
                                           MaxOf(a_shape[k], b_shape[k])]]))
        ELSE IF ~a_is_scalar THEN View(xs[1])
        ELSE View(xs[2])

(***************************************************************************)
(* ELUGrad.  The elements are integers: a.exp() is one only for a = 0, so  *)
(* the operator is modelled on inputs without negative elements.           *)
(***************************************************************************)
Exp(a) == CASE a = 0 -> 1

\* the factor of gy: 1 where a > 0, alpha * (exp(a) - 1) + alpha elsewhere
ELUGrad_factor(self, a) ==
    IF a > 0 THEN 1 ELSE self.alpha * (Exp(a) - 1) + self.alpha

\* xs = [x, gy]; a * gy broadcasts gy to the shape of x
ELUGrad_compute(self, xs) ==
    LET a == MkArr(xs[1].shape, LAMBDA c : ELUGrad_factor(self, At(xs[1], c)))
    IN  IF Broadcasts(xs[2], a) THEN Owned(Mul(a, xs[2])) ELSE Panic

(***************************************************************************)
(* SliceGrad, SplitGrad                                                    *)
(***************************************************************************)
\* the extents of the region that the indices select in an array of the shape
Region(shape, indices) == [k \in 1..Len(shape) |-> SliceLen(shape[k], indices[k])]

\* the region holds the position c of the array
Selected(shape, indices, c) ==
    \A k \in 1..Len(shape) :
        \E j \in 0..(SliceLen(shape[k], indices[k]) - 1) :
            SlicePos(shape[k], indices[k], j) = c[k]

\* the coordinates within the region of the selected position c
RegionCoord(shape, indices, c) ==
    [k \in 1..Len(shape) |->
        CHOOSE j \in 0..(SliceLen(shape[k], indices[k]) - 1) :
            SlicePos(shape[k], indices[k], j) = c[k]]

\* the scatter writing gy at the origin of gx, whatever the indices
Scatter_origin(shape, indices, gy) ==
    LET region == [shape |-> Region(shape, indices)]
    IN  MkArr(shape, LAMBDA c :
            IF \A k \in 1..Len(shape) : c[k] < region.shape[k]
            THEN BroadcastAt(gy, region, c)
            ELSE 0)

\* NdArray::zeros(x.shape()) with slice_mut(indices).zip_mut_with(gy, |a, &g|
\* *a = g): gy, broadcast to the region, written over the region of zeros
Scatter(shape, indices, gy) ==
    LET region == [shape |-> Region(shape, indices)]
    IN  MkArr(shape, LAMBDA c :
            IF Selected(shape, indices, c)
            THEN BroadcastAt(gy, region, RegionCoord(shape, indices, c))
            ELSE 0)

\* xs = [x, gy].  SliceInfo::new / slice_mut panic on indices that do not
\* fit x, zip_mut_with on a gy that does not broadcast to the region
SliceGrad_compute(self, xs) ==
    LET x == xs[1]
        gy == xs[2]
    IN  IF ~SlicesOk(x, self.indices) THEN Panic
        ELSE IF ~Broadcasts(gy, [shape |-> Region(x.shape, self.indices)]) THEN Panic
        ELSE Owned(Scatter(x.shape, self.indices, gy))

\* xs = [x, gy]
SplitGrad_compute(self, xs) ==
    LET x == xs[1]
        gy == xs[2]
        axis == normalize_negative_axis(self.axis, Len(x.shape))
        indices == make_indices_for_split(x, self.start_index, self.end_index, axis)
    IN  IF ~(Len(x.shape) > axis) THEN Panic
        ELSE IF ~SlicesOk(x, indices) THEN Panic
        ELSE IF ~Broadcasts(gy, [shape |-> Region(x.shape, indices)]) THEN Panic
        ELSE Owned(Scatter(x.shape, indices, gy))

(***************************************************************************)
(* The graph and its evaluation.  graph is the arena of tensor nodes, each *)
(* [op, inputs, shape]: the operator with its parameters, the indices of   *)
(* the input nodes, and the index of the node whose shape set_shape        *)
(* declared for it (0: none declared).  vals[n] is the value compute       *)
(* returned for node n; placeholders ("Leaf", and "Seed" for an incoming   *)
(* gradient) hold their arrays from the start.  grads[n] is the slot       *)
(* sequence that node n's grad method returned (0 for None, else the index *)
(* of the gradient node it built).                                         *)
(***************************************************************************)
Node(op, inputs, shape) == [op |-> op, inputs |-> inputs, shape |-> shape]

LeafNode == Node([name |-> "Leaf"], <<>>, 0)

SeedNode == Node([name |-> "Seed"], <<>>, 0)

NotCalled == <<-1>>

\* the array whose element at row-major position p is base + p
Iota(shape, base) == MkArr(shape, LAMBDA c : base + Flat(shape, c))

Nodes == DOMAIN graph

Named(name) == {n \in Nodes : graph[n].op.name = name}

\* a node is evaluated once, after its inputs, and nothing is evaluated after
\* a panic
Ready(n) ==
    /\ n \in Nodes
    /\ vals[n].tag = "None"
    /\ \A k \in 1..Len(graph[n].inputs) : IsArr(vals[graph[n].inputs[k]])
    /\ \A m \in Nodes : vals[m].tag # "Panic"

Ins(n) == [k \in 1..Len(graph[n].inputs) |-> Arr(vals[graph[n].inputs[k]])]

\* the evaluator stores what compute returned for node n
Store(n, v) ==
    /\ vals' = [vals EXCEPT ![n] = v]
    /\ UNCHANGED <<graph, grads>>

\* the gradient builder splices the nodes that node n's grad method built
\* into the graph and keeps the slots it returned
Splice(n, built) ==
    /\ grads[n] = NotCalled
    /\ Len(graph) + Len(built.nodes) <= MaxNodes
    /\ graph' = graph \o built.nodes
    /\ vals' = vals \o [k \in 1..Len(built.nodes) |-> NoVal]
    /\ grads' = [grads EXCEPT ![n] = built.slots]
                  \o [k \in 1..Len(built.nodes) |-> NotCalled]

EvalConcat ==
    \E n \in Named("Concat") :
        Ready(n) /\ Store(n, Concat_compute(graph[n].op, Ins(n)))

EvalConcatGrad ==
    \E n \in Named("ConcatGrad") :
        Ready(n) /\ Store(n, ConcatGrad_compute(graph[n].op, Ins(n)))

EvalSplit ==
    \E n \in Named("Split") :
        Ready(n) /\ Store(n, Split_compute(graph[n].op, Ins(n)))

EvalSqueeze ==
    \E n \in Named("Squeeze") :
        Ready(n) /\ Store(n, Squeeze_compute(graph[n].op, Ins(n)))

EvalExpandDims ==
    \E n \in Named("ExpandDims") :
        Ready(n) /\ Store(n, ExpandDims_compute(graph[n].op, Ins(n)))

EvalTile ==
    \E n \in Named("Tile") :
        Ready(n) /\ Store(n, Tile_compute(graph[n].op, Ins(n)))

EvalReduceSum ==
    \E n \in Named("ReduceSum") :
        Ready(n) /\ Store(n, ReduceSum_compute(graph[n].op, Ins(n)))

EvalIndexOp ==
    \E n \in Named("IndexOp") :
        Ready(n) /\ Store(n, IndexOp_compute(graph[n].op, Ins(n)))

EvalIndexOpGrad ==
    \E n \in Named("IndexOpGrad") :
        Ready(n) /\ Store(n, IndexOpGrad_compute(graph[n].op, Ins(n)))

EvalGather ==
    \E n \in Named("Gather") :
        Ready(n) /\ Store(n, Gather_compute(graph[n].op, Ins(n)))

EvalGatherGrad ==
    \E n \in Named("GatherGrad") :
        Ready(n) /\ Store(n, GatherGrad_compute(graph[n].op, Ins(n)))

EvalIdentity ==
    \E n \in Named("Identity") :
        Ready(n) /\ Store(n, Identity_compute(graph[n].op, Ins(n)))

EvalSlice ==
    \E n \in Named("Slice") :
        Ready(n) /\ Store(n, Slice_compute(graph[n].op, Ins(n)))

EvalReshape ==
    \E n \in Named("Reshape") :
        Ready(n) /\ Store(n, Reshape_compute(graph[n].op, Ins(n)))

EvalAddN ==
    \E n \in Named("AddN") :
        Ready(n) /\ Store(n, AddN_compute(graph[n].op, Ins(n)))

EvalClip ==
    \E n \in Named("Clip") :
        Ready(n) /\ Store(n, Clip_compute(graph[n].op, Ins(n)))

EvalClipGrad ==
    \E n \in Named("ClipGrad") :
        Ready(n) /\ Store(n, ClipGrad_compute(graph[n].op, Ins(n)))

EvalSliceGrad ==
    \E n \in Named("SliceGrad") :
        Ready(n) /\ Store(n, SliceGrad_compute(graph[n].op, Ins(n)))

EvalSplitGrad ==
    \E n \in Named("SplitGrad") :
        Ready(n) /\ Store(n, SplitGrad_compute(graph[n].op, Ins(n)))

EvalInferBinOpShape ==
    \E n \in Named("InferBinOpShape") :
        Ready(n) /\ Store(n, InferBinOpShape_compute(graph[n].op, Ins(n)))

EvalELUGrad ==
    \E n \in Named("ELUGrad") :
        Ready(n) /\ Store(n, ELUGrad_compute(graph[n].op, Ins(n)))

\* Concat::grad: one ConcatGrad node per input, over [gy, x0, ..., xn], each
\* declared with the shape of inputs[0]
Concat_grad(n, gy, base) ==
    LET inputs == graph[n].inputs
    IN  [nodes |-> [i \in 1..Len(inputs) |->
                      Node([name |-> "ConcatGrad", index |-> i - 1,
                            axis |-> graph[n].op.axis],
                           <<gy>> \o inputs, inputs[1])],
         slots |-> [i \in 1..Len(inputs) |-> base + i]]

GradConcat ==
    \E n \in Named("Concat"), gy \in Named("Seed") :
        Splice(n, Concat_grad(n, gy, Len(graph)))

\* Tile::grad: ops::reduce_sum(gy, &[self.axis], true)
Tile_grad(n, gy, base) ==
    [nodes |-> << Node([name |-> "ReduceSum", axes |-> <<graph[n].op.axis>>,
                        keep_dims |-> TRUE], <<gy>>, 0) >>,
     slots |-> <<base + 1>>]

GradTile ==
    \E n \in Named("Tile"), gy \in Named("Seed") :
        Splice(n, Tile_grad(n, gy, Len(graph)))

\* IndexOp::grad: IndexOpGrad over [x, gy], declared with the shape of x
IndexOp_grad(n, gy, base) ==
    [nodes |-> << Node([name |-> "IndexOpGrad", index |-> graph[n].op.index],
                       <<graph[n].inputs[1], gy>>, graph[n].inputs[1]) >>,
     slots |-> <<base + 1>>]

GradIndexOp ==
    \E n \in Named("IndexOp"), gy \in Named("Seed") :
        Splice(n, IndexOp_grad(n, gy, Len(graph)))

\* Gather::grad: GatherGrad over [indices, param, gy], declared with the
\* shape of inputs[0]; no gradient for the indices
Gather_grad(n, gy, base) ==
    [nodes |-> << Node([name |-> "GatherGrad", axis |-> graph[n].op.axis],
                       <<graph[n].inputs[1], graph[n].inputs[2], gy>>,
                       graph[n].inputs[1]) >>,
     slots |-> <<0, base + 1>>]

GradGather ==
    \E n \in Named("Gather"), gy \in Named("Seed") :
        Splice(n, Gather_grad(n, gy, Len(graph)))

\* Clip::grad: ClipGrad over [x, gy], declared with the shape of gy
Clip_grad(n, gy, base) ==
    [nodes |-> << Node([name |-> "ClipGrad", min |-> graph[n].op.min,
                        max |-> graph[n].op.max],
                       <<graph[n].inputs[1], gy>>, gy) >>,
     slots |-> <<base + 1>>]

GradClip ==
    \E n \in Named("Clip"), gy \in Named("Seed") :
        Splice(n, Clip_grad(n, gy, Len(graph)))

\* InferBinOpShape::grad: vec![None, None]
InferBinOpShape_grad(n, gy, base) ==
    [nodes |-> <<>>,
     slots |-> <<0, 0>>]

GradInferBinOpShape ==
    \E n \in Named("InferBinOpShape"), gy \in Named("Seed") :
        Splice(n, InferBinOpShape_grad(n, gy, Len(graph)))

\* Shape::grad: vec![None]
Shape_grad(n, gy, base) ==
    [nodes |-> <<>>,
     slots |-> <<0>>]

GradShape ==
    \E n \in Named("Shape"), gy \in Named("Seed") :
        Splice(n, Shape_grad(n, gy, Len(graph)))

\* Rank::grad: vec![None]
Rank_grad(n, gy, base) ==
    [nodes |-> <<>>,
     slots |-> <<0>>]

GradRank ==
    \E n \in Named("Rank"), gy \in Named("Seed") :
        Splice(n, Rank_grad(n, gy, Len(graph)))

\* Size::grad: vec![None]
Size_grad(n, gy, base) ==
    [nodes |-> <<>>,
     slots |-> <<0>>]

GradSize ==
    \E n \in Named("Size"), gy \in Named("Seed") :
        Splice(n, Size_grad(n, gy, Len(graph)))

\* Reshape::grad: a Reshape of gy to ops::shape(inputs[0]); no gradient for the shape
Reshape_grad(n, gy, base) ==
    [nodes |-> << Node([name |-> "Shape"], <<graph[n].inputs[1]>>, 0),
                   Node([name |-> "Reshape"], <<gy, base + 1>>, 0) >>,
     slots |-> <<base + 2, 0>>]

GradReshape ==
    \E n \in Named("Reshape"), gy \in Named("Seed") :
        Splice(n, Reshape_grad(n, gy, Len(graph)))

\* SetDiff1D::grad: vec![None, None]
SetDiff1D_grad(n, gy, base) ==
    [nodes |-> <<>>,
     slots |-> <<0, 0>>]

GradSetDiff1D ==
    \E n \in Named("SetDiff1D"), gy \in Named("Seed") :
        Splice(n, SetDiff1D_grad(n, gy, Len(graph)))

\* IndexOpGrad::grad: vec![None]
IndexOpGrad_grad(n, gy, base) ==
    [nodes |-> <<>>,
     slots |-> <<0>>]

GradIndexOpGrad ==
    \E n \in Named("IndexOpGrad"), gy \in Named("Seed") :
        Splice(n, IndexOpGrad_grad(n, gy, Len(graph)))

\* GatherGrad::grad: vec![None, None, None]
GatherGrad_grad(n, gy, base) ==
    [nodes |-> <<>>,
     slots |-> <<0, 0, 0>>]

GradGatherGrad ==
    \E n \in Named("GatherGrad"), gy \in Named("Seed") :
        Splice(n, GatherGrad_grad(n, gy, Len(graph)))

\* AddN::grad: vec![Some(gy.clone()); inputs.len()]
AddN_grad(n, gy, base) ==
    [nodes |-> <<>>,
     slots |-> [i \in 1..Len(graph[n].inputs) |-> gy]]

GradAddN ==
    \E n \in Named("AddN"), gy \in Named("Seed") :
        Splice(n, AddN_grad(n, gy, Len(graph)))

\* ClipGrad::grad: vec![None, None]
ClipGrad_grad(n, gy, base) ==
    [nodes |-> <<>>,
     slots |-> <<0, 0>>]

GradClipGrad ==
    \E n \in Named("ClipGrad"), gy \in Named("Seed") :
        Splice(n, ClipGrad_grad(n, gy, Len(graph)))

\* ConcatGrad::grad: vec![None; inputs.len()]
ConcatGrad_grad(n, gy, base) ==
    [nodes |-> <<>>,
     slots |-> [i \in 1..Len(graph[n].inputs) |-> 0]]

GradConcatGrad ==
    \E n \in Named("ConcatGrad"), gy \in Named("Seed") :
        Splice(n, ConcatGrad_grad(n, gy, Len(graph)))

\* Split::grad: SplitGrad over [x, gy], declared with the shape of x
Split_grad(n, gy, base) ==
    [nodes |-> << Node([name |-> "SplitGrad", axis |-> graph[n].op.axis,
                        start_index |-> graph[n].op.start_index,
                        end_index |-> graph[n].op.end_index],
                       <<graph[n].inputs[1], gy>>, graph[n].inputs[1]) >>,
     slots |-> <<base + 1>>]

GradSplit ==
    \E n \in Named("Split"), gy \in Named("Seed") :
        Splice(n, Split_grad(n, gy, Len(graph)))

\* SplitGrad::grad: vec![None]
SplitGrad_grad(n, gy, base) ==
    [nodes |-> <<>>,
     slots |-> <<0>>]

GradSplitGrad ==
    \E n \in Named("SplitGrad"), gy \in Named("Seed") :
        Splice(n, SplitGrad_grad(n, gy, Len(graph)))

\* Slice::grad: SliceGrad over [x, gy], declared with the shape of x
Slice_grad(n, gy, base) ==
    [nodes |-> << Node([name |-> "SliceGrad", indices |-> graph[n].op.indices],
                       <<graph[n].inputs[1], gy>>, graph[n].inputs[1]) >>,
     slots |-> <<base + 1>>]

GradSlice ==
    \E n \in Named("Slice"), gy \in Named("Seed") :
        Splice(n, Slice_grad(n, gy, Len(graph)))

\* SliceGrad::grad: vec![None, None]
SliceGrad_grad(n, gy, base) ==
    [nodes |-> <<>>,
     slots |-> <<0, 0>>]

GradSliceGrad ==
    \E n \in Named("SliceGrad"), gy \in Named("Seed") :
        Splice(n, SliceGrad_grad(n, gy, Len(graph)))

\* Squeeze::grad: ops::expand_dims(gy, inputs[1]); no gradient for the axes
Squeeze_grad(n, gy, base) ==
    [nodes |-> << Node([name |-> "ExpandDims"], <<gy, graph[n].inputs[2]>>, 0) >>,
     slots |-> <<base + 1, 0>>]

GradSqueeze ==
    \E n \in Named("Squeeze"), gy \in Named("Seed") :
        Splice(n, Squeeze_grad(n, gy, Len(graph)))

\* ExpandDims::grad: ops::squeeze(gy, inputs[1]); no gradient for the axes
ExpandDims_grad(n, gy, base) ==
    [nodes |-> << Node([name |-> "Squeeze"], <<gy, graph[n].inputs[2]>>, 0) >>,
     slots |-> <<base + 1, 0>>]

GradExpandDims ==
    \E n \in Named("ExpandDims"), gy \in Named("Seed") :
        Splice(n, ExpandDims_grad(n, gy, Len(graph)))

\* Softmax::grad: (gy - reduce_sum(output * gy, axis, keep_dims)) * output
Softmax_grad(n, gy, base) ==
    [nodes |-> << Node([name |-> "Mul"], <<n, gy>>, 0),
                   Node([name |-> "ReduceSum", axes |-> <<graph[n].op.axis>>,
                         keep_dims |-> TRUE], <<base + 1>>, 0),
                   Node([name |-> "Sub"], <<gy, base + 2>>, 0),
                   Node([name |-> "Mul"], <<base + 3, n>>, 0) >>,
     slots |-> <<base + 4>>]

GradSoftmax ==
    \E n \in Named("Softmax"), gy \in Named("Seed") :
        Splice(n, Softmax_grad(n, gy, Len(graph)))

\* Softplus::grad: gy * (exp(x) / (exp(x) + 1))
Softplus_grad(n, gy, base) ==
    [nodes |-> << Node([name |-> "Exp"], <<graph[n].inputs[1]>>, 0),
                   Node([name |-> "Scalar", value |-> 1], <<>>, 0),
                   Node([name |-> "Add"], <<base + 1, base + 2>>, 0),
                   Node([name |-> "Div"], <<base + 1, base + 3>>, 0),
                   Node([name |-> "Mul"], <<gy, base + 4>>, 0) >>,
     slots |-> <<base + 5>>]

GradSoftplus ==
    \E n \in Named("Softplus"), gy \in Named("Seed") :
        Splice(n, Softplus_grad(n, gy, Len(graph)))

\* Sigmoid::grad: gy * (y - square(y))
Sigmoid_grad(n, gy, base) ==
    [nodes |-> << Node([name |-> "Square"], <<n>>, 0),
                   Node([name |-> "Sub"], <<n, base + 1>>, 0),
                   Node([name |-> "Mul"], <<gy, base + 2>>, 0) >>,
     slots |-> <<base + 3>>]

GradSigmoid ==
    \E n \in Named("Sigmoid"), gy \in Named("Seed") :
        Splice(n, Sigmoid_grad(n, gy, Len(graph)))

\* ReLU::grad: mul(greater(x, scalar(0)), gy)
ReLU_grad(n, gy, base) ==
    [nodes |-> << Node([name |-> "Scalar", value |-> 0], <<>>, 0),
                   Node([name |-> "Greater"], <<graph[n].inputs[1], base + 1>>, 0),
                   Node([name |-> "Mul"], <<base + 2, gy>>, 0) >>,
     slots |-> <<base + 3>>]

GradReLU ==
    \E n \in Named("ReLU"), gy \in Named("Seed") :
        Splice(n, ReLU_grad(n, gy, Len(graph)))

\* Identity::grad: vec![Some(gy.clone())]
Identity_grad(n, gy, base) ==
    [nodes |-> <<>>,
     slots |-> <<gy>>]

GradIdentity ==
    \E n \in Named("Identity"), gy \in Named("Seed") :
        Splice(n, Identity_grad(n, gy, Len(graph)))

\* ELU::grad: ELUGrad over [x, gy], declared with the shape of gy
ELU_grad(n, gy, base) ==
    [nodes |-> << Node([name |-> "ELUGrad", alpha |-> graph[n].op.alpha],
                       <<graph[n].inputs[1], gy>>, gy) >>,
     slots |-> <<base + 1>>]

GradELU ==
    \E n \in Named("ELU"), gy \in Named("Seed") :
        Splice(n, ELU_grad(n, gy, Len(graph)))

\* ELUGrad::grad: vec![None, None]
ELUGrad_grad(n, gy, base) ==
    [nodes |-> <<>>,
     slots |-> <<0, 0>>]

GradELUGrad ==
    \E n \in Named("ELUGrad"), gy \in Named("Seed") :
        Splice(n, ELUGrad_grad(n, gy, Len(graph)))

(***************************************************************************)
(* SpecConcat: x0..xn of one rank agreeing off the axis, y = Concat(xs)    *)
(* and one Split of y at the offsets of input `focus`.                     *)
(* SpecConcatGrad: the same inputs and a seed gradient of y's shape, from  *)
(* which Concat::grad builds the ConcatGrad nodes.                         *)
(***************************************************************************)
Ranks == 1..2

Extents == 1..MaxExtent

Axes(rank) == (0 - rank)..(rank - 1)

\* x_i: extent e along the axis, extent other elsewhere
ConcatShape(rank, axis, other, e) ==
    [k \in 1..rank |-> IF k - 1 = normalize_negative_axis(axis, rank) THEN e ELSE other]

\* the nodes x0..xn, Concat(xs), and their values before evaluation
ConcatGraph(axis, n) ==
    [i \in 1..n |-> LeafNode]
       \o << Node([name |-> "Concat", axis |-> axis], [i \in 1..n |-> i], 0) >>

ConcatVals(rank, axis, other, exts) ==
    [i \in 1..Len(exts) |->
        Owned(Iota(ConcatShape(rank, axis, other, exts[i]), 100 * i))] \o << NoVal >>

Unbuilt(n) == [k \in 1..n |-> NotCalled]

InitConcat ==
    \E rank \in Ranks, n \in 2..MaxInputs, other \in Extents :
      \E axis \in Axes(rank), exts \in [1..n -> Extents], focus \in 1..n :
        /\ graph = ConcatGraph(axis, n)
             \o << Node([name |-> "Split", axis |-> axis,
                         start_index |-> Sum(SubSeq(exts, 1, focus - 1)),
                         end_index |-> Sum(SubSeq(exts, 1, focus))], <<n + 1>>, 0) >>
        /\ vals = ConcatVals(rank, axis, other, exts) \o << NoVal >>
        /\ grads = Unbuilt(n + 2)

NextConcat == EvalConcat \/ EvalSplit

SpecConcat == InitConcat /\ [][NextConcat]_vars

InitConcatGrad ==
    \E rank \in Ranks, n \in 2..MaxInputs, other \in Extents :
      \E axis \in Axes(rank), exts \in [1..n -> Extents] :
        /\ graph = ConcatGraph(axis, n) \o << SeedNode >>
        /\ vals = ConcatVals(rank, axis, other, exts)
             \o << Owned(Iota(ConcatShape(rank, axis, other, Sum(exts)), 1)) >>
        /\ grads = Unbuilt(n + 2)

NextConcatGrad == GradConcat \/ EvalConcatGrad

SpecConcatGrad == InitConcatGrad /\ [][NextConcatGrad]_vars

\* two arrays with the same shape and the same elements
Same(a, b) == a.shape = b.shape /\ a.data = b.data

\* the slice [from, to) of array a along axis, every other axis whole
AxisRange(a, axis, from, to) ==
    SliceArr(a, [k \in 1..Len(a.shape) |->
                    IF k - 1 = axis THEN Sl(from, to, 1) ELSE FullSlice])

\* C2: every evaluated ConcatGrad node with slot index i over [gy, x0..xn]
\* holds the slice of gy along the axis at [offset_i, offset_i + extent_i),
\* offset_i being the sum of the axis-extents of x0..x(i-1); and once all the
\* slots of one Concat are evaluated, laid end to end along the axis they are
\* gy again (no overlap, no gap).
C2_ConcatGradSlicesPartition ==
    /\ \A n \in Named("ConcatGrad") :
          IsArr(vals[n]) =>
             LET xs == Ins(n)
                 axis == Concat_axis(graph[n].op, Tail(xs))
                 i == graph[n].op.index
                 off == Offset(axis, Tail(xs), i)
                 ext == xs[i + 2].shape[axis + 1]
             IN  Same(vals[n], AxisRange(xs[1], axis, off, off + ext))
    /\ \A c \in Named("Concat") :
          (grads[c] # NotCalled /\ \A i \in 1..Len(grads[c]) : IsArr(vals[grads[c][i]]))
             => LET parts == [i \in 1..Len(grads[c]) |-> Arr(vals[grads[c][i]])]
                    gy == Ins(grads[c][1])[1]
                    axis == Concat_axis(graph[c].op, Ins(c))
                IN  StackOk(axis, parts) /\ Same(Stack(axis, parts), gy)

\* C6: a Split of y = Concat(xs, axis) along the same axis whose start and end
\* are the cumulative offsets of input i returns exactly input i.
C6_SplitOfConcatRecoversInput ==
    \A n \in Named("Split") :
       IsArr(vals[n]) =>
          LET c == graph[n].inputs[1]
              xs == Ins(c)
              axis == Concat_axis(graph[c].op, xs)
          IN  \A i \in 1..Len(xs) :
                 ( /\ graph[n].op.axis = graph[c].op.axis
                   /\ graph[n].op.start_index = Offset(axis, xs, i - 1)
                   /\ graph[n].op.end_index = Offset(axis, xs, i) )
                 => Same(vals[n], xs[i])

\* a Split of a three-input Concat over rank-2 arrays has been evaluated for
\* an input that does not start at offset 0
C6_Witness ==
    \E n \in Named("Split") :
       /\ IsArr(vals[n])
       /\ graph[n].op.start_index > 0
       /\ Len(graph[graph[n].inputs[1]].inputs) = 3
       /\ Len(vals[n].shape) >= 2

(***************************************************************************)
(* SpecDims: x, a 1-D array of axes, e = ExpandDims(x, axes) and           *)
(* Squeeze(e, axes).                                                       *)
(***************************************************************************)
Shapes(rank) == [1..rank -> Extents]

\* the strictly increasing sequences of k values of lo..hi
Increasing(k, lo, hi) ==
    {a \in [1..k -> lo..hi] : \A i \in 1..(k - 1) : a[i] < a[i + 1]}

Vector(data) == [shape |-> <<Len(data)>>, strides |-> <<1>>, data |-> data]

InitDims ==
    \E rank \in Ranks, k \in 1..MaxAxes :
      \E shape \in Shapes(rank), axes \in Increasing(k, 0 - (rank + k), rank + k - 1) :
        /\ graph = << LeafNode, LeafNode,
                      Node([name |-> "ExpandDims"], <<1, 2>>, 0),
                      Node([name |-> "Squeeze"], <<3, 2>>, 0) >>
        /\ vals = << Owned(Iota(shape, 1)), Owned(Vector(axes)), NoVal, NoVal >>
        /\ grads = Unbuilt(4)

NextDims == EvalExpandDims \/ EvalSqueeze

SpecDims == InitDims /\ [][NextDims]_vars

\* a sorted set of axes that is valid for ExpandDims of an array of rank
\* `rank`: strictly increasing, no axis below -rank (the least that counts
\* from the end of the input) and none past the rank of the output
ValidAxes(axes, rank) ==
    /\ \A i \in 1..Len(axes) : 0 - rank <= axes[i] /\ axes[i] < rank + Len(axes)
    /\ \A i \in 1..(Len(axes) - 1) : axes[i] < axes[i + 1]

\* the Squeeze nodes that undo an ExpandDims with the same axes input
RoundTrips ==
    {sq \in Named("Squeeze") :
        /\ graph[graph[sq].inputs[1]].op.name = "ExpandDims"
        /\ graph[graph[sq].inputs[1]].inputs[2] = graph[sq].inputs[2]}

\* the round trips whose axes are all non-negative
C4_NonNegativeRoundTrip ==
    \A sq \in RoundTrips :
       LET e == graph[sq].inputs[1]
           x == vals[graph[e].inputs[1]]
           axes == vals[graph[sq].inputs[2]].data
       IN  (ValidAxes(axes, Len(x.shape)) /\ \A i \in 1..Len(axes) : axes[i] >= 0)
              => /\ vals[e].tag # "Panic"
                 /\ vals[sq].tag # "Panic"
                 /\ IsArr(vals[sq]) => Same(vals[sq], x)

\* C4: for every valid sorted axis set (negative axes included), ExpandDims
\* and then Squeeze with the same axes both return, and the result has the
\* shape and the elements of x.
C4_SqueezeUndoesExpandDims ==
    \A sq \in RoundTrips :
       LET e == graph[sq].inputs[1]
           x == vals[graph[e].inputs[1]]
           axes == vals[graph[sq].inputs[2]].data
       IN  ValidAxes(axes, Len(x.shape))
              => /\ vals[e].tag # "Panic"
                 /\ vals[sq].tag # "Panic"
                 /\ IsArr(vals[sq]) => Same(vals[sq], x)

(***************************************************************************)
(* SpecTile: x, y = Tile(x, axis, num), an all-ones seed of y's shape, and *)
(* the gradient node Tile::grad builds from it.                            *)
(***************************************************************************)
Ones(shape) == MkArr(shape, LAMBDA c : 1)

InitTile ==
    \E rank \in Ranks, num \in 1..MaxNum :
      \E shape \in Shapes(rank), axis \in Axes(rank) :
        /\ graph = << LeafNode,
                      Node([name |-> "Tile", axis |-> axis, num |-> num], <<1>>, 0),
                      SeedNode >>
        /\ vals = << Owned(Iota(shape, 1)), NoVal,
                     Owned(Ones([shape EXCEPT ![normalize_negative_axis(axis, rank) + 1]
                                                 = num * @])) >>
        /\ grads = Unbuilt(3)

NextTile == EvalTile \/ GradTile \/ EvalReduceSum

SpecTile == InitTile /\ [][NextTile]_vars

\* C5: the gradient node Tile builds for x, evaluated on the all-ones seed of
\* y's shape, has the shape of x and holds num at every position.
C5_TileGradIsNum ==
    \A t \in Named("Tile") :
       (grads[t] # NotCalled /\ IsArr(vals[grads[t][1]]))
          => LET gx == vals[grads[t][1]]
                 x == vals[graph[t].inputs[1]]
             IN  /\ gx.shape = x.shape
                 /\ \A q \in 1..Len(gx.data) : gx.data[q] = graph[t].op.num

(***************************************************************************)
(* SpecIndex: x, IndexOp(x, index), a scalar seed, and the IndexOpGrad     *)
(* node IndexOp::grad builds.                                              *)
(***************************************************************************)
InitIndex ==
    \E rank \in Ranks, gy \in 1..MaxValue :
      \E shape \in Shapes(rank) :
        \E index \in (0 - Prod(shape) - 1)..Prod(shape) :
          /\ graph = << LeafNode, Node([name |-> "IndexOp", index |-> index], <<1>>, 0),
                        SeedNode >>
          /\ vals = << Owned(Iota(shape, 10)), NoVal, Owned(Scalar(gy)) >>
          /\ grads = Unbuilt(3)

NextIndex == EvalIndexOp \/ GradIndexOp \/ EvalIndexOpGrad

SpecIndex == InitIndex /\ [][NextIndex]_vars

\* the row-major position that index i names in an array of len elements
FlatPosition(len, i) == IF i >= 0 THEN i ELSE len + i

InRange(len, i) == 0 - len <= i /\ i < len

\* C7: for -len <= i < len, IndexOp(i) returns the element at row-major
\* position i (len + i when i < 0) as a scalar, and IndexOpGrad(i) returns an
\* array of x's shape that is zero except at that position, which holds the
\* scalar incoming gradient.
C7_IndexOpWrapsAndScatters ==
    /\ \A n \in Named("IndexOp") :
          LET x == vals[graph[n].inputs[1]]
              i == graph[n].op.index
          IN  (vals[n].tag # "None" /\ InRange(Len(x.data), i))
                 => /\ IsArr(vals[n])
                    /\ vals[n].shape = <<>>
                    /\ vals[n].data = <<x.data[FlatPosition(Len(x.data), i) + 1]>>
    /\ \A n \in Named("IndexOpGrad") :
          LET x == vals[graph[n].inputs[1]]
              gy == vals[graph[n].inputs[2]]
              i == graph[n].op.index
          IN  (vals[n].tag # "None" /\ InRange(Len(x.data), i))
                 => /\ IsArr(vals[n])
                    /\ vals[n].shape = x.shape
                    /\ \A q \in 1..Len(x.data) :
                          vals[n].data[q] =
                             IF q = FlatPosition(Len(x.data), i) + 1 THEN gy.data[1] ELSE 0

\* IndexOp and its IndexOpGrad have both been evaluated for a negative index
\* that is not -1, on an array of rank 2
C7_Witness ==
    \E n \in Named("IndexOp"), g \in Named("IndexOpGrad") :
       /\ IsArr(vals[n]) /\ IsArr(vals[g])
       /\ graph[n].op.index < -1
       /\ graph[g].op.index = graph[n].op.index
       /\ Len(vals[g].shape) = 2

(***************************************************************************)
(* SpecClip: a 1-D x, Clip(x, min, max), a seed of x's shape, and the      *)
(* ClipGrad node Clip::grad builds.  The elements of x range over values   *)
(* below, at, between and above the thresholds.                            *)
(***************************************************************************)
InitClip ==
    \E len \in 1..(MaxExtent + 1), min \in 1..2, max \in 2..(MaxValue - 1) :
      \E data \in [1..len -> 0..MaxValue] :
        /\ graph = << LeafNode, Node([name |-> "Clip", min |-> min, max |-> max], <<1>>, 0),
                      SeedNode >>
        /\ vals = << Owned(Vector(data)), NoVal, Owned(Iota(<<len>>, 5)) >>
        /\ grads = Unbuilt(3)

NextClip == EvalClip \/ GradClip \/ EvalClipGrad

SpecClip == InitClip /\ [][NextClip]_vars

\* C9: ClipGrad(min, max) returns, elementwise, the incoming gradient where
\* min < x < max strictly and zero elsewhere (so zero where x = min or x = max).
C9_ClipGradStrictInterior ==
    \A n \in Named("ClipGrad") :
       vals[n].tag # "None" =>
          LET x == vals[graph[n].inputs[1]]
              gy == vals[graph[n].inputs[2]]
          IN  /\ IsArr(vals[n])
              /\ vals[n].shape = x.shape
              /\ \A q \in 1..Len(x.data) :
                    vals[n].data[q] =
                       IF graph[n].op.min < x.data[q] /\ x.data[q] < graph[n].op.max
                       THEN gy.data[q] ELSE 0

\* a ClipGrad has been evaluated on an x that holds min, max and a value
\* strictly between them
C9_Witness ==
    \E n \in Named("ClipGrad") :
       /\ IsArr(vals[n])
       /\ LET x == vals[graph[n].inputs[1]].data
          IN  \E a, b, c \in 1..Len(x) :
                 /\ x[a] = graph[n].op.min
                 /\ x[b] = graph[n].op.max
                 /\ graph[n].op.min < x[c] /\ x[c] < graph[n].op.max

(***************************************************************************)
(* SpecGather: a 1-D array of indices, param, Gather(indices, param), a    *)
(* seed of the gathered shape, and the GatherGrad node Gather::grad        *)
(* builds.  The indices range from -1 to the largest extent, so some are   *)
(* out of range.                                                           *)
(***************************************************************************)
InitGather ==
    \E rank \in Ranks, k \in 1..MaxIndices, norm \in BOOLEAN :
      \E shape \in Shapes(rank), axis \in Axes(rank), indices \in [1..k -> -1..MaxExtent] :
        /\ graph = << LeafNode, LeafNode,
                      Node([name |-> "Gather", axis |-> axis,
                            should_normalize_negative_indices |-> norm], <<1, 2>>, 0),
                      SeedNode >>
        /\ vals = << Owned(Vector(indices)), Owned(Iota(shape, 100)), NoVal,
                     Owned(Iota([shape EXCEPT ![normalize_negative_axis(axis, rank) + 1] = k],
                                1)) >>
        /\ grads = Unbuilt(4)

NextGather == GradGather \/ EvalGatherGrad

SpecGather == InitGather /\ [][NextGather]_vars

\* the sum of f(k) over the set S
RECURSIVE SumOver(_, _)
SumOver(S, f) ==
    IF S = {} THEN 0
    ELSE LET k == CHOOSE k \in S : TRUE IN f[k] + SumOver(S \ {k}, f)

\* C3: for a non-negative axis and indices within [0, extent), GatherGrad
\* returns an array of param's shape whose element at coordinates c is the
\* sum, over every k with indices[k] = c[axis], of the incoming gradient at c
\* with k in place of c[axis] (zero when no index selects c[axis]).
C3_GatherGradAccumulates ==
    \A n \in Named("GatherGrad") :
       LET indices == vals[graph[n].inputs[1]].data
           param == vals[graph[n].inputs[2]]
           gy == Arr(vals[graph[n].inputs[3]])
           axis == graph[n].op.axis
       IN  ( /\ vals[n].tag # "None"
             /\ 0 <= axis /\ axis < Len(param.shape)
             /\ \A k \in 1..Len(indices) :
                   0 <= indices[k] /\ indices[k] < param.shape[axis + 1] )
              => /\ IsArr(vals[n])
                 /\ vals[n].shape = param.shape
                 /\ \A q \in 1..Len(vals[n].data) :
                       LET c == Unflat(param.shape, q - 1)
                           S == {k \in 1..Len(indices) : indices[k] = c[axis + 1]}
                       IN  vals[n].data[q] =
                              SumOver(S, [k \in S |-> At(gy, [c EXCEPT ![axis + 1] = k - 1])])

\* a GatherGrad has been evaluated, along axis 1 of a rank-2 param, with an
\* index that occurs twice and a position that no index selects
C3_Witness ==
    \E n \in Named("GatherGrad") :
       LET indices == vals[graph[n].inputs[1]].data
           param == vals[graph[n].inputs[2]]
       IN  /\ IsArr(vals[n])
           /\ graph[n].op.axis = 1
           /\ \E j, k \in 1..Len(indices) : j # k /\ indices[j] = indices[k]
           /\ \E p \in 0..(param.shape[2] - 1) : \A k \in 1..Len(indices) : indices[k] # p

(***************************************************************************)
(* SpecGrad: one forward operator over placeholder inputs and a seed; the  *)
(* gradient builder calls the grad method of the operator, and then of the *)
(* operators of the nodes that call built, while the graph has room.  No   *)
(* node is evaluated: grad only builds graph.                              *)
(***************************************************************************)
ForwardOps ==
    {[name |-> nm] : nm \in {"InferBinOpShape", "Shape", "Rank", "Size", "Reshape",
                              "SetDiff1D", "AddN", "Squeeze", "ExpandDims", "Softplus",
                              "Sigmoid", "ReLU", "Identity"}}
    \cup {[name |-> "IndexOp", index |-> i] : i \in -1..1}
    \cup {[name |-> "Gather", axis |-> a, should_normalize_negative_indices |-> b] :
             a \in -1..1, b \in BOOLEAN}
    \cup {[name |-> "Clip", min |-> 1, max |-> m] : m \in 2..MaxValue}
    \cup {[name |-> "Concat", axis |-> a] : a \in -1..1}
    \cup {[name |-> "Tile", axis |-> a, num |-> k] : a \in -1..1, k \in 1..MaxNum}
    \cup {[name |-> "Split", axis |-> a, start_index |-> 0, end_index |-> e] :
             a \in -1..1, e \in Extents}
    \cup {[name |-> "Slice", indices |-> <<Sl(0, e, 1)>>] : e \in Extents}
    \cup {[name |-> "Softmax", axis |-> a] : a \in -1..1}
    \cup {[name |-> "ELU", alpha |-> 1]}

\* how many inputs the compute of a forward operator reads
Arity(name) ==
    CASE name \in {"AddN", "Concat"} -> 1..MaxInputs
      [] name \in {"InferBinOpShape", "Reshape", "SetDiff1D", "Gather", "Squeeze",
                   "ExpandDims"} -> {2}
      [] OTHER -> {1}

InitGrad ==
    \E op \in ForwardOps :
      \E k \in Arity(op.name) :
        /\ graph = [i \in 1..k |-> LeafNode] \o << Node(op, [i \in 1..k |-> i], 0), SeedNode >>
        /\ vals = [i \in 1..(k + 2) |-> NoVal]
        /\ grads = Unbuilt(k + 2)

NextGrad ==
    \/ GradInferBinOpShape \/ GradShape \/ GradRank \/ GradSize \/ GradReshape
    \/ GradSetDiff1D \/ GradIndexOp \/ GradIndexOpGrad \/ GradGather \/ GradGatherGrad
    \/ GradAddN \/ GradClip \/ GradClipGrad \/ GradConcat \/ GradConcatGrad \/ GradTile
    \/ GradSplit \/ GradSplitGrad \/ GradSlice \/ GradSliceGrad \/ GradSqueeze
    \/ GradExpandDims \/ GradSoftmax \/ GradSoftplus \/ GradSigmoid \/ GradReLU
    \/ GradIdentity \/ GradELU \/ GradELUGrad

SpecGrad == InitGrad /\ [][NextGrad]_vars

\* C1: whenever a node's grad method has been called, it returned exactly one
\* slot (Some or None) per input of the node, i.e. per input its compute is
\* given.
C1_OneGradSlotPerInput ==
    \A n \in Nodes : grads[n] # NotCalled => Len(grads[n]) = Len(graph[n].inputs)

(***************************************************************************)
(* SpecView: the operators that reindex their input.  Reshape is given x   *)
(* in row-major or in column-major layout and a target shape that may hold *)
(* the sentinel -1; Identity, Slice and AddN are given row-major inputs;   *)
(* ExpandDims, Squeeze and the ConcatGrad nodes of Concat::grad come with  *)
(* the graphs of SpecDims and SpecConcatGrad.                              *)
(***************************************************************************)
FortranStrides(shape) == [k \in 1..Len(shape) |-> Prod(SubSeq(shape, 1, k - 1))]

Layouts(shape) == {DefaultStrides(shape), FortranStrides(shape)}

Targets == UNION {[1..k -> {-1} \cup (1..(MaxExtent + 1))] : k \in 1..2}

InitReshape ==
    \E rank \in Ranks, target \in Targets :
      \E shape \in Shapes(rank) :
        \E strides \in Layouts(shape) :
          /\ graph = << LeafNode, LeafNode, Node([name |-> "Reshape"], <<1, 2>>, 0) >>
          /\ vals = << Owned([Iota(shape, 1) EXCEPT !.strides = strides]),
                       Owned(Vector(target)), NoVal >>
          /\ grads = Unbuilt(3)

SliceSpecs == {Sl(start, end, step) : start \in 0..1, end \in -1..MaxExtent, step \in {-1, 1, 2}}
                 \cup {FullSlice}

InitReindex ==
    \E rank \in Ranks, k \in 1..MaxInputs :
      \E shape \in Shapes(rank), indices \in [1..rank -> SliceSpecs] :
        \E op \in {[name |-> "Identity"], [name |-> "AddN"],
                   [name |-> "Slice", indices |-> indices]} :
          /\ op.name # "AddN" => k = 1
          /\ graph = [i \in 1..k |-> LeafNode] \o << Node(op, [i \in 1..k |-> i], 0) >>
          /\ vals = [i \in 1..k |-> Owned(Iota(shape, 10 * i))] \o << NoVal >>
          /\ grads = Unbuilt(k + 1)

InitView == InitReshape \/ InitReindex \/ InitDims \/ InitConcatGrad

NextView ==
    \/ EvalIdentity \/ EvalSlice \/ EvalAddN \/ EvalReshape
    \/ EvalExpandDims \/ EvalSqueeze \/ GradConcat \/ EvalConcatGrad

SpecView == InitView /\ [][NextView]_vars

\* every element of v is an element of x
DrawnFrom(v, x) == \A p \in 1..Len(v.data) : \E q \in 1..Len(x.data) : v.data[p] = x.data[q]

\* C8: a result of Identity, Slice, Squeeze, ExpandDims, ConcatGrad, of Reshape
\* of a standard-layout input, or of AddN of exactly one input, is tagged View,
\* never Owned, and holds elements of the input it aliases only.
C8_ReindexingReturnsView ==
    \A n \in Nodes :
        LET v == vals[n]
            name == graph[n].op.name
            xs == Ins(n)
        IN  /\ IsArr(v)
            /\ \/ name \in {"Identity", "Slice", "Squeeze", "ExpandDims", "ConcatGrad"}
               \/ name = "Reshape" /\ IsStandardLayout(xs[1])
               \/ name = "AddN" /\ Len(xs) = 1
            => /\ v.tag = "View"
               /\ DrawnFrom(v, xs[1])

\* a standard-layout x of more than one element has been reshaped to another
\* shape, and the result is a View
C8_Witness ==
    \E n \in Named("Reshape") :
        LET x == vals[graph[n].inputs[1]]
        IN  /\ vals[n].tag = "View"
            /\ IsStandardLayout(x)
            /\ Len(x.data) > 1
            /\ vals[n].shape # x.shape
            /\ vals[n].data = x.data

(***************************************************************************)
(* SpecErr: Concat over inputs of independent shapes, and the Reshape      *)
(* graphs of SpecView.                                                     *)
(***************************************************************************)
InitErr ==
    \/ InitReshape
    \/ \E rank \in Ranks, n \in 2..MaxInputs :
         \E axis \in Axes(rank), shapes \in [1..n -> Shapes(rank)] :
           /\ graph = ConcatGraph(axis, n)
           /\ vals = [i \in 1..n |-> Owned(Iota(shapes[i], 100 * i))] \o << NoVal >>
           /\ grads = Unbuilt(n + 1)

NextErr == EvalConcat \/ EvalReshape

SpecErr == InitErr /\ [][NextErr]_vars

\* the inputs of Concat node n have one rank and disagree in an extent off the
\* concatenation axis
OffAxisDisagree(n) ==
    LET xs == Ins(n)
        rank == Len(xs[1].shape)
        axis == normalize_negative_axis(graph[n].op.axis, rank)
    IN  \E i, j \in 1..Len(xs) : \E k \in 1..rank :
            k - 1 # axis /\ xs[i].shape[k] # xs[j].shape[k]

\* the target of Reshape node n holds one sentinel -1, and the product of its
\* other extents does not divide the element count of x
NotDividing(n) ==
    LET xs == Ins(n)
        target == xs[2].data
        given == 0 - Prod(target)
    IN  /\ Cardinality({k \in 1..Len(target) : target[k] = -1}) = 1
        /\ given > 0
        /\ Len(xs[1].data) % given # 0

\* C10: when Concat is given inputs whose extents off the concatenation axis
\* disagree, or Reshape a target whose inferred extent does not divide the
\* element count evenly, compute returns an error value in its result sequence
\* and does not terminate fatally.
C10_DataFailuresAreErrorValues ==
    \A n \in Nodes :
        /\ vals[n].tag # "None"
        /\ \/ graph[n].op.name = "Concat" /\ OffAxisDisagree(n)
           \/ graph[n].op.name = "Reshape" /\ NotDividing(n)
        => /\ vals[n].tag = "Err"
           /\ vals[n].tag # "Panic"

(***************************************************************************)
(* SpecFatal: the operators with a precondition on their parameters.       *)
(* IndexOp and its IndexOpGrad come with the graphs of SpecIndex, whose    *)
(* indices run from -len - 1 to len; Squeeze is given an array of rank up  *)
(* to 3 and any axes within [-rank, rank); Split and the SplitGrad of      *)
(* Split::grad are given axes from -rank - 1 to rank.                      *)
(***************************************************************************)
SqueezeRanks == 1..3

InitSqueeze ==
    \E rank \in SqueezeRanks, k \in 1..MaxAxes :
      \E shape \in Shapes(rank), axes \in [1..k -> (0 - rank)..(rank - 1)] :
        /\ graph = << LeafNode, LeafNode, Node([name |-> "Squeeze"], <<1, 2>>, 0) >>
        /\ vals = << Owned(Iota(shape, 1)), Owned(Vector(axes)), NoVal >>
        /\ grads = Unbuilt(3)

\* the shape of the region Split selects, or of x when it selects none
SplitRegion(self, shape) ==
    LET x == [shape |-> shape]
        axis == normalize_negative_axis(self.axis, Len(shape))
        indices == make_indices_for_split(x, self.start_index, self.end_index, axis)
    IN  IF axis < Len(shape) /\ SlicesOk(x, indices) THEN Region(shape, indices) ELSE shape

InitSplit ==
    \E rank \in Ranks, start \in 0..1, end \in 0..(MaxExtent + 1) :
      \E shape \in Shapes(rank), axis \in (0 - rank - 1)..rank :
        LET op == [name |-> "Split", axis |-> axis, start_index |-> start, end_index |-> end]
        IN  /\ graph = << LeafNode, Node(op, <<1>>, 0), SeedNode >>
            /\ vals = << Owned(Iota(shape, 1)), NoVal, Owned(Iota(SplitRegion(op, shape), 50)) >>
            /\ grads = Unbuilt(3)

InitFatal == InitIndex \/ InitSqueeze \/ InitSplit

NextFatal ==
    \/ EvalIndexOp \/ GradIndexOp \/ EvalIndexOpGrad
    \/ EvalSqueeze
    \/ EvalSplit \/ GradSplit \/ EvalSplitGrad

SpecFatal == InitFatal /\ [][NextFatal]_vars

\* the axis of an array of the rank that a names: rank + a when a < 0
NamedAxis(a, rank) == IF a < 0 THEN rank + a ELSE a

\* IndexOp / IndexOpGrad node n is given an index outside [-len, len - 1]
IndexOutOfRange(n) ==
    ~InRange(Len(vals[graph[n].inputs[1]].data), graph[n].op.index)

\* Squeeze node n is given an axis that names an axis of x of extent other than 1
NamesNonUnitAxis(n) ==
    LET x == vals[graph[n].inputs[1]]
        axes == vals[graph[n].inputs[2]].data
    IN  \E i \in 1..Len(axes) : x.shape[NamedAxis(axes[i], Len(x.shape)) + 1] # 1

\* Split / SplitGrad node n is given an axis that is not below the rank of x
AxisNotBelowRank(n) == graph[n].op.axis >= Len(vals[graph[n].inputs[1]].shape)

\* C11: IndexOp and IndexOpGrad with an index outside [-len, len - 1], Squeeze
\* naming an axis whose extent is not 1, and Split and SplitGrad with an axis
\* not below the rank of the input end in a panic: compute returns neither a
\* result nor an error value.
C11_PreconditionViolationsAreFatal ==
    \A n \in Nodes :
        /\ vals[n].tag # "None"
        /\ \/ graph[n].op.name \in {"IndexOp", "IndexOpGrad"} /\ IndexOutOfRange(n)
           \/ graph[n].op.name = "Squeeze" /\ NamesNonUnitAxis(n)
           \/ graph[n].op.name \in {"Split", "SplitGrad"} /\ AxisNotBelowRank(n)
        => vals[n].tag = "Panic"

(***************************************************************************)
(* SpecInverse: x, Slice(indices) or Split(axis, start, end) of x, a seed  *)
(* shaped like the region selected, and the SliceGrad / SplitGrad node     *)
(* that the grad method builds over [x, seed].                             *)
(***************************************************************************)
InitSlice ==
    \E rank \in Ranks :
      \E shape \in Shapes(rank), indices \in [1..rank -> SliceSpecs] :
        /\ graph = << LeafNode, Node([name |-> "Slice", indices |-> indices], <<1>>, 0),
                      SeedNode >>
        /\ vals = << Owned(Iota(shape, 1)), NoVal,
                     Owned(Iota(IF SlicesOk([shape |-> shape], indices)
                                THEN Region(shape, indices) ELSE shape, 50)) >>
        /\ grads = Unbuilt(3)

InitInverse == InitSlice \/ InitSplit

NextInverse == GradSlice \/ EvalSliceGrad \/ GradSplit \/ EvalSplitGrad

SpecInverse == InitInverse /\ [][NextInverse]_vars

\* what the forward operator of gradient node n returns for the array a
Forward(n, a) ==
    IF graph[n].op.name = "SliceGrad"
    THEN Slice_compute(graph[n].op, <<a>>)
    ELSE Split_compute(graph[n].op, <<a>>)

NonZeros(data) == Cardinality({q \in 1..Len(data) : data[q] # 0})

\* C12: for x on which the forward Slice / Split returns a region, and a gy of
\* the shape of that region without zeros, SliceGrad / SplitGrad returns an
\* array of the shape of x from which the forward operator reads gy back, and
\* which is zero everywhere else (it has as many non-zero elements as gy).
C12_GradScattersIntoForwardRegion ==
    \A n \in Named("SliceGrad") \cup Named("SplitGrad") :
        LET x == Arr(vals[graph[n].inputs[1]])
            gy == Arr(vals[graph[n].inputs[2]])
            region == Forward(n, x)
        IN  (vals[n].tag # "None" /\ IsArr(region) /\ gy.shape = region.shape)
               => /\ IsArr(vals[n])
                  /\ vals[n].shape = x.shape
                  /\ IsArr(Forward(n, Arr(vals[n])))
                  /\ Forward(n, Arr(vals[n])).shape = gy.shape
                  /\ Forward(n, Arr(vals[n])).data = gy.data
                  /\ NonZeros(vals[n].data) = Len(gy.data)

\* a SliceGrad has scattered two or more elements into part of a rank-2 x
\* through a reversed axis
C12_Witness ==
    \E n \in Named("SliceGrad") :
        /\ IsArr(vals[n])
        /\ Len(vals[n].shape) = 2
        /\ \E k \in 1..2 : graph[n].op.indices[k].step < 0
        /\ Len(vals[graph[n].inputs[2]].data) >= 2
        /\ NonZeros(vals[n].data) = Len(vals[graph[n].inputs[2]].data)
        /\ NonZeros(vals[n].data) < Len(vals[n].data)

(***************************************************************************)
(* SpecReshape: the Reshape graphs of SpecView on their own: x of rank 1   *)
(* or 2 in row-major or column-major layout, and a target of one or two    *)
(* extents, each the sentinel -1 or a positive extent.                     *)
(***************************************************************************)
NextReshape == EvalReshape

SpecReshape == InitReshape /\ [][NextReshape]_vars

Sentinels(target) == {k \in 1..Len(target) : target[k] = -1}

\* the product of the extents of the target other than the sentinel
GivenProduct(target) == Prod([k \in 1..Len(target) |-> IF target[k] = -1 THEN 1 ELSE target[k]])

\* C13: with exactly one sentinel -1 in the target, Reshape replaces it by the
\* element count of x divided by the product of the other extents and returns
\* the elements of x, in row-major order, in that shape; when the division is
\* not exact, or a target without sentinel holds another number of elements
\* than x, it panics.
C13_ReshapeInfersSentinelExtent ==
    \A n \in Named("Reshape") :
        LET x == vals[graph[n].inputs[1]]
            target == vals[graph[n].inputs[2]].data
            len == Len(x.data)
            given == GivenProduct(target)
        IN  vals[n].tag # "None" =>
              /\ (Cardinality(Sentinels(target)) = 1 /\ len % given = 0)
                    => /\ IsArr(vals[n])
                       /\ vals[n].shape = [k \in 1..Len(target) |->
                                             IF target[k] = -1 THEN len \div given
                                             ELSE target[k]]
                       /\ vals[n].data = x.data
              /\ (Cardinality(Sentinels(target)) = 1 /\ len % given # 0)
                    => vals[n].tag = "Panic"
              /\ (Sentinels(target) = {} /\ given # len)
                    => vals[n].tag = "Panic"

\* a Reshape has inferred an extent of 2 or more beside a given extent of 2
\* or more
C13_Witness ==
    \E n \in Named("Reshape") :
        LET target == vals[graph[n].inputs[2]].data
        IN  /\ IsArr(vals[n])
            /\ Cardinality(Sentinels(target)) = 1
            /\ GivenProduct(target) >= 2
            /\ \E k \in Sentinels(target) : vals[n].shape[k] >= 2

(***************************************************************************)
(* SpecInfer: InferBinOpShape over two shapes given as 1-D arrays: of 0 to *)
(* 2 extents, an extent of 0 included.  GradInferBinOpShape is the call of *)
(* its grad method.                                                        *)
(***************************************************************************)
ShapeVectors == UNION {[1..k -> 0..MaxExtent] : k \in 0..2}

InitInfer ==
    \E a \in ShapeVectors, b \in ShapeVectors :
        /\ graph = << LeafNode, LeafNode, Node([name |-> "InferBinOpShape"], <<1, 2>>, 0),
                      SeedNode >>
        /\ vals = << Owned(Vector(a)), Owned(Vector(b)), NoVal, NoVal >>
        /\ grads = Unbuilt(4)

NextInfer == EvalInferBinOpShape \/ GradInferBinOpShape

SpecInfer == InitInfer /\ [][NextInfer]_vars

\* C14: for every pair of operand shapes, InferBinOpShape returns a shape: the
\* elementwise maximum of the two when neither is a scalar shape, and the
\* non-scalar operand's shape as it is when exactly one of them is.
C14_InferBinOpShapeIsMaxOrNonScalar ==
    \A n \in Named("InferBinOpShape") :
        LET a == vals[graph[n].inputs[1]].data
            b == vals[graph[n].inputs[2]].data
        IN  vals[n].tag # "None" =>
              /\ IsArr(vals[n])
              /\ (~is_scalar_shape(a) /\ ~is_scalar_shape(b))
                    => \A k \in 1..Len(vals[n].data) :
                          (k <= Len(a) /\ k <= Len(b))
                             => vals[n].data[k] = MaxOf(a[k], b[k])
              /\ (~is_scalar_shape(a) /\ is_scalar_shape(b)) => vals[n].data = a
              /\ (is_scalar_shape(a) /\ ~is_scalar_shape(b)) => vals[n].data = b

(***************************************************************************)
(* SpecShape: the operators whose grad method declares a static shape for  *)
(* the node it builds (set_shape): Concat, Gather, Split, Slice, IndexOp,  *)
(* Clip and ELU, each with its inputs and a seed of the shape of its       *)
(* output.  The grad method builds the gradient nodes, and the evaluator   *)
(* computes them.                                                          *)
(***************************************************************************)
InitELU ==
    \E rank \in Ranks, alpha \in 1..2 :
      \E shape \in Shapes(rank) :
        /\ graph = << LeafNode, Node([name |-> "ELU", alpha |-> alpha], <<1>>, 0), SeedNode >>
        /\ vals = << Owned(Iota(shape, 0)), NoVal, Owned(Iota(shape, 5)) >>
        /\ grads = Unbuilt(3)

InitShape ==
    \/ InitConcatGrad \/ InitGather \/ InitSplit \/ InitSlice
    \/ InitIndex \/ InitClip \/ InitELU

NextShape ==
    \/ GradConcat \/ EvalConcatGrad
    \/ GradGather \/ EvalGatherGrad
    \/ GradSplit \/ EvalSplitGrad
    \/ GradSlice \/ EvalSliceGrad
    \/ GradIndexOp \/ EvalIndexOpGrad
    \/ GradClip \/ EvalClipGrad
    \/ GradELU \/ EvalELUGrad

SpecShape == InitShape /\ [][NextShape]_vars

\* gradient node g, built for input j of node n, declares the shape of that
\* input, and its compute returns an array of the declared shape
DeclaresProducedShape(n, j, g) ==
    LET declared == vals[graph[g].shape].shape
    IN  /\ declared = vals[graph[n].inputs[j]].shape
        /\ IsArr(vals[g]) => vals[g].shape = declared

\* C15: every gradient node that a grad method built with a declared shape
\* declares the shape of the input whose partial gradient it is, and that is
\* the shape of the array its compute returns.
C15_DeclaredShapeIsProducedShape ==
    \A n \in Nodes :
        grads[n] # NotCalled =>
            \A j \in 1..Len(grads[n]) :
                LET g == grads[n][j]
                IN  (g # 0 /\ graph[g].shape # 0) => DeclaresProducedShape(n, j, g)

\* the positions along the axis that Gather node n reads from param
ReadPositions(n) ==
    LET indices == Arr(vals[graph[n].inputs[1]])
        param == vals[graph[n].inputs[2]]
        axis == normalize_negative_axis(graph[n].op.axis, Len(param.shape))
        flat == Gather_flat_indices(graph[n].op, indices, param.shape[axis + 1])
    IN  {flat[k] : k \in 1..Len(flat)}

\* C16: whenever Gather reads param (its axis within [-rank, rank - 1], its
\* indices, normalized when it normalizes negative ones, within the extent),
\* the GatherGrad node built for it returns a gradient, and the gradient is
\* non-zero exactly at the positions along Gather's axis that Gather read (the
\* seed has no zero element).
C16_GatherGradWritesWhereGatherRead ==
    \A n \in Named("Gather") :
        (grads[n] # NotCalled /\ vals[grads[n][2]].tag # "None"
           /\ IsArr(Gather_compute(graph[n].op, Ins(n))))
        => LET g == vals[grads[n][2]]
               param == vals[graph[n].inputs[2]]
               axis == normalize_negative_axis(graph[n].op.axis, Len(param.shape))
           IN  /\ IsArr(g)
               /\ g.shape = param.shape
               /\ \A q \in 1..Len(g.data) :
                     g.data[q] # 0 <=> Unflat(param.shape, q - 1)[axis + 1] \in ReadPositions(n)

(***************************************************************************)
(* SpecSqueeze: the Squeeze graphs of SpecFatal on their own.              *)
(***************************************************************************)
NextSqueeze == EvalSqueeze

SpecSqueeze == InitSqueeze /\ [][NextSqueeze]_vars

\* the axes of an array of the rank that the sequence axes names
NamedAxes(axes, rank) == {NamedAxis(axes[i], rank) : i \in 1..Len(axes)}

\* the extents of the axes from k on, without those of the axes in S
RECURSIVE Without(_, _, _)
Without(shape, S, k) ==
    IF k > Len(shape) THEN <<>>
    ELSE (IF (k - 1) \in S THEN <<>> ELSE <<shape[k]>>) \o Without(shape, S, k + 1)

\* C17: given distinct axes that each name an axis of extent 1 of x (a < 0
\* naming axis rank + a of x), Squeeze returns the elements of x in the shape
\* of x without exactly those axes, for any number of axes and any number of
\* negative ones.
C17_SqueezeRemovesNamedAxes ==
    \A n \in Named("Squeeze") :
        LET x == vals[graph[n].inputs[1]]
            axes == vals[graph[n].inputs[2]].data
            named == NamedAxes(axes, Len(x.shape))
        IN  ( /\ vals[n].tag # "None"
              /\ Cardinality(named) = Len(axes)
              /\ \A a \in named : x.shape[a + 1] = 1 )
            => /\ IsArr(vals[n])
               /\ vals[n].shape = Without(x.shape, named, 1)
               /\ vals[n].data = x.data

=============================================================================
